---- MODULE Spec2Model ----
(***************************************************************************)
(* Model of the crawl loop of scraper.py (uoloki/web-scraper).            *)
(*                                                                         *)
(* Strings are tuples of one-character strings, so that the regular       *)
(* expressions, the tuple order of the priority queue and str.strip() are  *)
(* computed on characters.  A Python value that may be None is a tuple of  *)
(* length at most one: <<>> is None and <<v>> is the value v.              *)
(* Priorities are in tenths: 5 stands for 0.5 and 10 for 1.                *)
(* Times are in seconds.                                                   *)
(***************************************************************************)
EXTENDS Integers, Sequences, FiniteSets, TLC

\* ------------------------------------------------------------------ bounds
MaxLinks == 2          \* hyperlinks on one fetched page
MaxTimeLimit == 1      \* largest --time-limit argument (minutes)
MaxPageLimit == 2      \* largest --page-limit argument
MaxTicks == 1          \* whole minutes the wall clock runs for

\* time_limit = args.time_limit * 60: seconds per minute.  The only use of the
\* clock is the test elapsed < time_limit with time_limit a multiple of 60,
\* whose result depends on the whole minutes elapsed only, so the clock
\* advances by whole minutes.
SecondsPerMinute == 60

\* ---------------------------------------------------------------- optionals
None == <<>>
Some(v) == <<v>>
Val(o) == o[1]

\* ------------------------------------------------------------------ strings
\* The characters the modelled strings use, in code point order.
Chars == <<"\n", " ", ".", "/", "2", "3", ":", "B", "N", "a", "b", "c", "d", "e",
           "f", "g", "h", "i", "l", "m", "n", "o", "p", "r", "s", "t", "u",
           "v", "x">>

Ord(c) == CHOOSE i \in 1..Len(Chars) : Chars[i] = c

Digits == {"2", "3"}

\* Python str comparison a < b: by code point, a proper prefix is smaller.
RECURSIVE StrLess(_, _)
StrLess(a, b) ==
    IF b = <<>> THEN FALSE
    ELSE IF a = <<>> THEN TRUE
    ELSE IF Head(a) = Head(b) THEN StrLess(Tail(a), Tail(b))
    ELSE Ord(Head(a)) < Ord(Head(b))

\* The literal lit occurs in s starting at position i.
LitAt(s, i, lit) ==
    /\ i + Len(lit) - 1 <= Len(s)
    /\ \A k \in 1..Len(lit) : s[i + k - 1] = lit[k]

Https == <<"h", "t", "t", "p", "s", ":", "/", "/">>
Scrapeme == <<"s", "c", "r", "a", "p", "e", "m", "e">>
Live == <<"l", "i", "v", "e">>
ShopPath == <<"/", "s", "h", "o", "p", "/">>
PagePath == <<"p", "a", "g", "e", "/">>

\* BASE_URL = 'https://scrapeme.live/shop/'
BASE_URL == Https \o Scrapeme \o <<".">> \o Live \o ShopPath

\* The hrefs a fetched page may carry.
UrlPage2 == BASE_URL \o PagePath \o <<"2", "/">>
UrlPage3 == BASE_URL \o PagePath \o <<"3">>
UrlSub == Https \o <<"m", ".">> \o Scrapeme \o <<".">> \o Live \o <<"/">>
UrlOff == Https \o <<"x", ".", "o", "r", "g", "/">>

URLS == {BASE_URL, UrlPage2, UrlPage3, UrlSub, UrlOff}

\* A second site, whose pages also link to a host that only starts like the
\* target's: https://scrapeme.live.x.org/
UrlLook == Https \o Scrapeme \o <<".">> \o Live \o <<".", "x", ".", "o", "r", "g", "/">>

LookUrls == {BASE_URL, UrlSub, UrlOff, UrlLook}

AllUrls == URLS \cup LookUrls

\* ---------------------------------------------------------- is_product_page
\* re.match(r"^https://scrapeme\.live/shop/page/\d+/?$", url): the literal
\* prefix, one or more digits, an optional slash, then the end of the string
\* or a single newline that ends the string.
ProductPrefix == BASE_URL \o PagePath

product_page_match(url) ==
    /\ LitAt(url, 1, ProductPrefix)
    /\ \E n \in 1..Len(url) :
         LET first == Len(ProductPrefix) + 1
             rest == SubSeq(url, first + n, Len(url))
         IN  /\ first + n - 1 <= Len(url)
             /\ \A k \in first..(first + n - 1) : url[k] \in Digits
             /\ rest \in {<<>>, <<"/">>, <<"\n">>, <<"/", "\n">>}

\* re.match(r"https://(?:.*\.)?scrapeme.live", url): anchored at the start
\* only; '.' is any character but a newline.
HostAt(s, i) ==
    /\ LitAt(s, i, Scrapeme)
    /\ i + Len(Scrapeme) <= Len(s)
    /\ s[i + Len(Scrapeme)] # "\n"
    /\ LitAt(s, i + Len(Scrapeme) + 1, Live)

same_site_match(url) ==
    /\ LitAt(url, 1, Https)
    /\ \E i \in (Len(Https) + 1)..Len(url) :
         /\ HostAt(url, i)
         /\ \/ i = Len(Https) + 1
            \/ /\ url[i - 1] = "."
               /\ \A k \in (Len(Https) + 1)..(i - 2) : url[k] # "\n"

\* The two matches and the string order, evaluated once for every url.
ProductPageUrls == {u \in AllUrls : product_page_match(u)}
SameSiteUrls == {u \in AllUrls : same_site_match(u)}
UrlOrder == {p \in AllUrls \X AllUrls : StrLess(p[1], p[2])}

is_product_page(url) == url \in ProductPageUrls
same_site(url) == url \in SameSiteUrls

\* ---------------------------------------------------------- priority queue
\* queue.PriorityQueue keeps a binary heap of (priority, url) tuples; get()
\* returns a least tuple.  The heap is modelled as the sequence of its tuples
\* in ascending order, which has the same contents (urls.queue) and the same
\* get() results.
HALF == 5
ONE == 10

\* Variant that compares the priorities only.
ItemLess_PriorityOnly(a, b) == a[1] < b[1]

\* Python tuple comparison of (priority, url) pairs.
ItemLess(a, b) == a[1] < b[1] \/ (a[1] = b[1] /\ <<a[2], b[2]>> \in UrlOrder)

\* Variant that keeps the entries in insertion order, as queue.Queue does.
put_Fifo(q, item) == Append(q, item)

RECURSIVE put(_, _)
put(q, item) ==
    IF q = <<>> THEN <<item>>
    ELSE IF ItemLess(item, Head(q)) THEN <<item>> \o q
    ELSE <<Head(q)>> \o put(Tail(q), item)

\* [item[1] for item in urls.queue]
QueuedUrls(q) == {q[i][2] : i \in 1..Len(q)}

InList(x, list) == \E i \in 1..Len(list) : list[i] = x

\* ------------------------------------------------------------ parsed pages
\* What safe_scrape_page returns on success: the hrefs of the page's a[href]
\* elements in document order and the three elements extract_product_data
\* looks up.  image: None when no .wp-post-image element exists, Some(None)
\* for an element without a src attribute, Some(Some(s)) for one with src s.
\* title, price: None or Some(text of the element).
ImgSrc == <<"i", ".", "p", "n", "g">>
TitleText == <<" ", "B", "u", "l", "b", "\n">>

RECURSIVE SeqsUpTo(_, _)
SeqsUpTo(S, n) ==
    IF n = 0 THEN {<<>>}
    ELSE LET shorter == SeqsUpTo(S, n - 1)
         IN  shorter \cup {Append(s, x) : s \in shorter, x \in S}

LinkLists == SeqsUpTo(URLS, MaxLinks)
Images == {None, Some(None), Some(Some(ImgSrc))}

\* The pages the crawl draws for a product url: the image lookup in its three
\* cases, a title to strip and no price element.
ProductSoups == [links : LinkLists, image : Images, title : {Some(TitleText)}, price : {None}]

\* The product elements of a page are read only by extract_product_data,
\* which runs only for product pages; other pages are drawn without them.
PlainSoups == [links : LinkLists, image : {None}, title : {None}, price : {None}]

\* The pages of the second site, which has no product page.
LookLinkLists == SeqsUpTo(LookUrls, MaxLinks)
LookSoups == [links : LookLinkLists, image : {None}, title : {None}, price : {None}]

\* ----------------------------------------------------- extract_product_data
Whitespace == {" ", "\n"}

RECURSIVE lstrip(_)
lstrip(t) == IF t # <<>> /\ Head(t) \in Whitespace THEN lstrip(Tail(t)) ELSE t

RECURSIVE rstrip(_)
rstrip(t) ==
    IF t # <<>> /\ t[Len(t)] \in Whitespace
    THEN rstrip(SubSeq(t, 1, Len(t) - 1)) ELSE t

strip(t) == rstrip(lstrip(t))

NoImageFound == <<"N", "o", " ", "i", "m", "a", "g", "e", " ", "f", "o", "u", "n", "d">>
NoTitleFound == <<"N", "o", " ", "t", "i", "t", "l", "e", " ", "f", "o", "u", "n", "d">>
NoPriceFound == <<"N", "o", " ", "p", "r", "i", "c", "e", " ", "f", "o", "u", "n", "d">>

\* Variant in which a lookup that finds nothing fails the extraction.
extract_product_data_Strict(soup, current_url) ==
    IF soup.image = None \/ soup.title = None \/ soup.price = None
       \/ Val(soup.image) = None
    THEN None
    ELSE Some([url |-> current_url,
               image |-> Val(Val(soup.image)),
               name |-> strip(Val(soup.title)),
               price |-> strip(Val(soup.price))])

\* product_image["src"] raises KeyError when the element has no src
\* attribute; the except clause logs it and returns None.
extract_product_data(soup, current_url) ==
    IF soup.image # None /\ Val(soup.image) = None THEN None
    ELSE Some([url |-> current_url,
               image |-> IF soup.image # None THEN Val(Val(soup.image))
                         ELSE NoImageFound,
               name |-> IF soup.title # None THEN strip(Val(soup.title))
                        ELSE NoTitleFound,
               price |-> IF soup.price # None THEN strip(Val(soup.price))
                         ELSE NoPriceFound])

\* -------------------------------------------------------------------- state
VARIABLES
    args,           \* get_args(): [time_limit, page_limit], each None or Some(int)
    time_limit,     \* seconds, None or Some(int)
    page_limit,     \* None or Some(int)
    elapsed,        \* time.time() - start_time, in seconds
    products,       \* list of what extract_product_data returned
    urls,           \* the PriorityQueue
    visited_urls,   \* list of urls
    pages_scraped,
    pc,             \* "loop": at the while test, "done": after save_to_dataframe,
                    \* "blocked": inside urls.get() on an empty queue
    saved,          \* the list handed to save_to_dataframe, None before
    last,           \* history: None or Some(record) of the latest iteration
    fetch_log,      \* history: per url, the outcomes of its fetches in order
    probe           \* a call of a function on its own: None, or Some(record)
                    \* of the function's name, its arguments and its result

vars == <<args, time_limit, page_limit, elapsed, products, urls, visited_urls,
          pages_scraped, pc, saved, last, fetch_log, probe>>

\* --------------------------------------------------------------------- main
\* args.time_limit * 60 if args.time_limit else None: 0 is falsy.
time_limit_seconds(arg) ==
    IF arg # None /\ Val(arg) # 0 THEN Some(Val(arg) * SecondsPerMinute) ELSE None

\* time_limit is None or (time.time() - start_time) < time_limit
TimeOk(tl, el) == IF tl = None THEN TRUE ELSE el < Val(tl)

\* Variants of the page test: one that lets the counter reach the limit and
\* go on, one that stops a page early.
PageOk_Inclusive(pl, n) == IF pl = None THEN TRUE ELSE n <= Val(pl)
PageOk_Early(pl, n) == IF pl = None THEN TRUE ELSE n + 1 < Val(pl)

\* page_limit is None or pages_scraped < page_limit
PageOk(pl, n) == IF pl = None THEN TRUE ELSE n < Val(pl)

\* Variant of the while condition without the urls.empty() test.
LoopCondition_NoEmptyTest ==
    TimeOk(time_limit, elapsed) /\ PageOk(page_limit, pages_scraped)

\* the while condition
LoopCondition == urls # <<>> /\ TimeOk(time_limit, elapsed) /\ PageOk(page_limit, pages_scraped)

\* Variants of the duplicate test that drop one of its two halves.
NotSeen_VisitedOnly(url, visited, q) == ~InList(url, visited)
NotSeen_QueuedOnly(url, visited, q) == url \notin QueuedUrls(q)

\* url not in visited_urls and url not in [item[1] for item in urls.queue]
NotSeen(url, visited, q) == ~InList(url, visited) /\ url \notin QueuedUrls(q)

\* Variant that gives every link the default score.
priority_score_Flat(url) == ONE

priority_score(url) == IF is_product_page(url) THEN HALF ELSE ONE

\* the body of the for loop for one link element
enqueue_link(q, visited, url) ==
    IF same_site(url) /\ NotSeen(url, visited, q)
    THEN put(q, <<priority_score(url), url>>)
    ELSE q

RECURSIVE scan_links(_, _, _)
scan_links(q, visited, links) ==
    IF links = <<>> THEN q
    ELSE scan_links(enqueue_link(q, visited, Head(links)), visited, Tail(links))

\* The four updates of the loop body, for soup = what safe_scrape_page
\* returned: None on any error, Some(document) otherwise.  A BeautifulSoup
\* object is always truthy, so "if soup" tests for None.
\* Variants of the visited update: never record, record whatever the outcome.
VisitedAfter_Never(visited, current_url, soup) == visited
VisitedAfter_Always(visited, current_url, soup) == Append(visited, current_url)

VisitedAfter(visited, current_url, soup) ==
    IF soup # None THEN Append(visited, current_url) ELSE visited

\* Variant that counts every fetch attempt.
PagesAfter_Always(n, soup) == n + 1

PagesAfter(n, soup) == IF soup # None THEN n + 1 ELSE n

QueueAfter(q, visited, soup) ==
    IF soup # None THEN scan_links(q, visited, Val(soup).links) ELSE q

ProductsAfter(list, current_url, soup) ==
    IF soup # None /\ is_product_page(current_url)
    THEN Append(list, extract_product_data(Val(soup), current_url))
    ELSE list

\* Variant that leaves the loop when a fetch fails.
PcAfter_BreakOnError(soup) == IF soup = None THEN "done" ELSE "loop"

\* Both branches of "if soup" fall through to the while test: the else branch
\* only logs.
PcAfter(soup) == "loop"

\* safe_scrape_page(url, headers): None on any error, else the parsed page.
FetchResults(url) ==
    {None} \cup {Some(d) : d \in (IF is_product_page(url) THEN ProductSoups ELSE PlainSoups)}

\* History of the link scan: it met a same-site link that was already queued
\* (when it was reached), or one that was already visited.
RECURSIVE MetQueued(_, _, _)
MetQueued(q, visited, links) ==
    IF links = <<>> THEN FALSE
    ELSE \/ same_site(Head(links)) /\ Head(links) \in QueuedUrls(q)
         \/ MetQueued(enqueue_link(q, visited, Head(links)), visited, Tail(links))

MetVisited(visited, links) ==
    \E i \in 1..Len(links) : same_site(links[i]) /\ InList(links[i], visited)

ArgValues(max) == {None} \cup {Some(n) : n \in 0..max}

Init ==
    /\ args \in [time_limit : ArgValues(MaxTimeLimit), page_limit : ArgValues(MaxPageLimit)]
    /\ time_limit = time_limit_seconds(args.time_limit)
    /\ page_limit = args.page_limit
    /\ elapsed = 0
    /\ products = <<>>
    /\ urls = put(<<>>, <<HALF, BASE_URL>>)
    /\ visited_urls = <<>>
    /\ pages_scraped = 0
    /\ pc = "loop"
    /\ saved = None
    /\ last = None
    /\ fetch_log = [u \in AllUrls |-> <<>>]
    /\ probe = None

\* The url the next urls.get() returns.
CurrentUrl == IF urls # <<>> THEN Head(urls)[2] ELSE None

\* One iteration of the while loop, the fetch returning one of results.
\* urls.get() on an empty PriorityQueue waits for an item for ever.
IterateFrom(results) ==
    /\ pc = "loop"
    /\ LoopCondition
    /\ IF urls = <<>>
       THEN /\ pc' = "blocked"
            /\ UNCHANGED <<visited_urls, pages_scraped, urls, products, last, fetch_log>>
       ELSE /\ \E soup \in results :
                 LET current_url == Head(urls)[2]
                     visited == VisitedAfter(visited_urls, current_url, soup)
                 IN  /\ visited_urls' = visited
                     /\ pages_scraped' = PagesAfter(pages_scraped, soup)
                     /\ urls' = QueueAfter(Tail(urls), visited, soup)
                     /\ products' = ProductsAfter(products, current_url, soup)
                     /\ last' = Some([url |-> current_url,
                                       ok |-> soup # None,
                                       met_queued |-> IF soup = None THEN FALSE
                                                      ELSE MetQueued(Tail(urls), visited, Val(soup).links),
                                       met_visited |-> IF soup = None THEN FALSE
                                                       ELSE MetVisited(visited, Val(soup).links)])
                     /\ fetch_log' = [fetch_log EXCEPT ![current_url] = Append(@, soup # None)]
                     /\ pc' = PcAfter(soup)
    /\ UNCHANGED <<args, time_limit, page_limit, elapsed, saved, probe>>

Iterate == IterateFrom(FetchResults(CurrentUrl))

\* The wall clock advances while the session runs.
Tick ==
    /\ pc = "loop"
    /\ elapsed + SecondsPerMinute <= MaxTicks * SecondsPerMinute
    /\ elapsed' = elapsed + SecondsPerMinute
    /\ UNCHANGED <<args, time_limit, page_limit, products, urls, visited_urls,
                   pages_scraped, pc, saved, last, fetch_log, probe>>

\* The while condition is false: save_to_dataframe(products, PRODUCT_CSV).
Exit ==
    /\ pc = "loop"
    /\ ~LoopCondition
    /\ saved' = Some(products)
    /\ pc' = "done"
    /\ UNCHANGED <<args, time_limit, page_limit, elapsed, products, urls,
                   visited_urls, pages_scraped, last, fetch_log, probe>>

\* The same session on the second site.
FetchResultsLook(url) == {None} \cup {Some(d) : d \in LookSoups}

IterateLook == IterateFrom(FetchResultsLook(CurrentUrl))

Next ==
    \/ Iterate
    \/ Tick
    \/ Exit

Spec == Init /\ [][Next]_vars

\* A session without limits in which every fetch returns and the loop test is
\* made: an iteration that can run does run, and so does the exit.
InitNoLimits == Init /\ args = [time_limit |-> None, page_limit |-> None]

LiveSpec == InitNoLimits /\ [][Next]_vars /\ WF_vars(Iterate) /\ WF_vars(Exit)

LookNext ==
    \/ IterateLook
    \/ Tick
    \/ Exit

LookSpec == Init /\ [][LookNext]_vars

\* ------------------------------------------------- the functions on their own
\* extract_product_data and is_product_page applied to inputs drawn from
\* bounded sets, outside a session.
PriceText == <<" ", "2", "3">>

Titles == {None, Some(TitleText), Some(<<"B">>), Some(<<>>)}
Prices == {None, Some(PriceText), Some(<<"2", " ", "3", "\n">>)}

Soups == [links : {<<>>}, image : Images, title : Titles, price : Prices]

\* Candidate strings for the classifier: every concatenation of one choice
\* per part.
Http == <<"h", "t", "t", "p", ":", "/", "/">>

SampleLeads == {<<>>, <<" ">>}
SampleSchemes == {Https, Http}
SampleHosts == {Scrapeme \o <<".">> \o Live,
                Scrapeme \o <<"x">> \o Live,
                <<"m", ".">> \o Scrapeme \o <<".">> \o Live}
SamplePaths == {ShopPath \o PagePath, ShopPath, ShopPath \o <<"p", "a", "g", "e", "s", "/">>}
SampleNumbers == {<<>>, <<"2">>, <<"2", "3">>, <<"a">>}
SampleTails == {<<>>, <<"/">>, <<"/", "/">>, <<"\n">>, <<"/", "\n">>, <<"/", "a">>}

SampleUrls ==
    {l \o s \o h \o p \o n \o t :
        l \in SampleLeads, s \in SampleSchemes, h \in SampleHosts,
        p \in SamplePaths, n \in SampleNumbers, t \in SampleTails}

ProbeInputs ==
    [fn : {"extract_product_data"}, url : {UrlPage2, UrlPage3}, soup : Soups, out : {None}]
    \cup [fn : {"is_product_page"}, url : SampleUrls, soup : {None}, out : {None}]

UnitInit ==
    /\ args = [time_limit |-> None, page_limit |-> None]
    /\ time_limit = None
    /\ page_limit = None
    /\ elapsed = 0
    /\ products = <<>>
    /\ urls = <<>>
    /\ visited_urls = <<>>
    /\ pages_scraped = 0
    /\ pc = "unit"
    /\ saved = None
    /\ last = None
    /\ fetch_log = [u \in AllUrls |-> <<>>]
    /\ probe \in {Some(p) : p \in ProbeInputs}

\* extract_product_data(soup, current_url)
Extract ==
    /\ probe # None
    /\ Val(probe).fn = "extract_product_data"
    /\ Val(probe).out = None
    /\ probe' = Some([Val(probe) EXCEPT
                        !.out = Some(extract_product_data(Val(probe).soup, Val(probe).url))])
    /\ UNCHANGED <<args, time_limit, page_limit, elapsed, products, urls,
                   visited_urls, pages_scraped, pc, saved, last, fetch_log>>

\* is_product_page(url): whether re.match returned a match.
Classify ==
    /\ probe # None
    /\ Val(probe).fn = "is_product_page"
    /\ Val(probe).out = None
    /\ probe' = Some([Val(probe) EXCEPT !.out = Some(product_page_match(Val(probe).url))])
    /\ UNCHANGED <<args, time_limit, page_limit, elapsed, products, urls,
                   visited_urls, pages_scraped, pc, saved, last, fetch_log>>

UnitNext ==
    \/ Extract
    \/ Classify

UnitSpec == UnitInit /\ [][UnitNext]_vars

\* ------------------------------------------------------------------ claims
\* A step that is an iteration of the loop: it fetched a url.
IterationStep == fetch_log' # fetch_log

Stopped == pc = "done"

\* C1: with a page limit N >= 0, the pages-scraped counter is at most N in
\* every reachable state, termination included.
C1_PagesWithinLimit ==
    IF page_limit = None THEN TRUE ELSE pages_scraped <= Val(page_limit)

\* C1 witness: a session stopped with the counter at a limit of at least 1
\* after at least one failed fetch.
C1_Witness ==
    /\ Stopped
    /\ page_limit # None
    /\ Val(page_limit) >= 1
    /\ pages_scraped = Val(page_limit)
    /\ \E u \in URLS : \E i \in 1..Len(fetch_log[u]) : ~fetch_log[u][i]

\* C2 (as claimed): with --time-limit T, T >= 0, no iteration dequeues a url
\* when the loop test observes T minutes or more elapsed.
C2_NoFetchPastTimeLimit ==
    [][IterationStep =>
         IF args.time_limit = None THEN TRUE
         ELSE elapsed < Val(args.time_limit) * SecondsPerMinute]_vars

\* C3: every url appears in the frontier at most once.
C3_FrontierUnique ==
    \A i, j \in 1..Len(urls) : i # j => urls[i][2] # urls[j][2]

\* C3 witness: the scan of a fetched page met a link that was already queued
\* and the frontier holds at least two entries.
C3_Witness ==
    /\ last # None
    /\ Val(last).met_queued
    /\ Len(urls) >= 2

\* C4: no url is in the frontier and in the visited list at the same time.
C4_FrontierDisjointVisited ==
    \A i \in 1..Len(urls) : ~InList(urls[i][2], visited_urls)

\* C4 witness: the first page fetched links to itself, the only visited url,
\* and the scan enqueued other links.
C4_Witness ==
    /\ last # None
    /\ Val(last).met_visited
    /\ Len(visited_urls) = 1
    /\ urls # <<>>

C7_FailedIterationFrame ==
    [][(IterationStep /\ ~Val(last').ok) =>
         /\ pages_scraped' = pages_scraped
         /\ products' = products
         /\ urls' = Tail(urls)]_vars

\* C7 witness: the fetch of a product page failed after pages were scraped.
C7_Witness ==
    /\ last # None
    /\ ~Val(last).ok
    /\ is_product_page(Val(last).url)
    /\ pages_scraped >= 1

\* C8 (as claimed): every element of the record list is a product record,
\* never None.
C8_NoNilRecord == \A i \in 1..Len(products) : products[i] # None

\* C9 (as claimed): with a page limit N, a session that stops while the
\* frontier is non-empty has scraped exactly N pages.
C9_ExactlyLimit ==
    (Stopped /\ page_limit # None /\ urls # <<>>) =>
        pages_scraped = Val(page_limit)

\* C9 (amended): with a page limit N >= 0, a session that stops while the
\* frontier is non-empty and the time limit, if any, has not run out has
\* scraped exactly N pages.
C9_ExactlyLimitInTime ==
    (Stopped /\ page_limit # None /\ urls # <<>> /\ TimeOk(time_limit, elapsed)) =>
        pages_scraped = Val(page_limit)

\* C9 witness: both limits are set and the session stopped on the page limit
\* with pages scraped and urls left.
C9_Witness ==
    /\ Stopped
    /\ page_limit # None
    /\ time_limit # None
    /\ TimeOk(time_limit, elapsed)
    /\ urls # <<>>
    /\ pages_scraped >= 2

\* C10: every frontier entry has priority 0.5 if its url is a product page or
\* it is the seed entry, and priority 1 otherwise.
C10_PriorityPolicy ==
    \A i \in 1..Len(urls) :
        urls[i][1] = (IF is_product_page(urls[i][2]) \/ urls[i][2] = BASE_URL
                      THEN HALF ELSE ONE)

\* C10 witness: the frontier holds a discovered product page at 0.5 and
\* another discovered link at 1.
C10_Witness ==
    /\ \E i \in 1..Len(urls) : urls[i] = <<HALF, UrlPage2>>
    /\ \E i \in 1..Len(urls) : urls[i][1] = ONE

\* C11: every dequeue returns an entry of least priority among the frontier's
\* entries; the first url fetched is the seed, and while a 0.5 entry is
\* queued no priority-1 entry is fetched.
C11_DequeueMinPriority ==
    [][IterationStep =>
         /\ last = None => Val(last').url = BASE_URL
         /\ \E k \in 1..Len(urls) :
              /\ urls[k][2] = Val(last').url
              /\ \A i \in 1..Len(urls) : urls[k][1] <= urls[i][1]]_vars

\* C11 witness: a product page was fetched ahead of a priority-1 link that
\* the same earlier page had put in the frontier.
C11_Witness ==
    /\ last # None
    /\ Val(last).url = UrlPage2
    /\ Len(visited_urls) + Len(fetch_log[BASE_URL]) <= 3
    /\ fetch_log[UrlSub] = <<>>
    /\ \E i \in 1..Len(urls) : urls[i] = <<ONE, UrlSub>>

\* The host of a url: what follows https:// up to the next slash.
HostEnd(url) ==
    IF \E k \in (Len(Https) + 1)..Len(url) : url[k] = "/"
    THEN (CHOOSE k \in (Len(Https) + 1)..Len(url) :
              /\ url[k] = "/"
              /\ \A j \in (Len(Https) + 1)..(k - 1) : url[j] # "/") - 1
    ELSE Len(url)

HostOf(url) == SubSeq(url, Len(Https) + 1, HostEnd(url))

SiteHost == Scrapeme \o <<".">> \o Live

\* The host is scrapeme.live or a subdomain of it.
HostIsSite(url) ==
    /\ LitAt(url, 1, Https)
    /\ LET h == HostOf(url)
       IN  \/ h = SiteHost
           \/ /\ Len(h) > Len(SiteHost) + 1
              /\ SubSeq(h, Len(h) - Len(SiteHost), Len(h)) = <<".">> \o SiteHost

\* C12 (as claimed): every frontier entry other than the seed is a link found
\* on a fetched page whose host is scrapeme.live or a subdomain of it.
C12_OnlySameSiteQueued ==
    \A i \in 1..Len(urls) :
        urls[i][2] # BASE_URL => (visited_urls # <<>> /\ HostIsSite(urls[i][2]))

\* The positions of the record list that hold a record for url u.
RecordsFor(u) ==
    {i \in 1..Len(products) :
        IF products[i] = None THEN FALSE ELSE Val(products[i]).url = u}

\* C13 (as claimed): the list holds exactly one record, with that url, for
\* every product page fetched successfully so far and none for any other url.
C13_OneRecordPerFetchedProduct ==
    \A u \in AllUrls :
        Cardinality(RecordsFor(u)) =
            (IF is_product_page(u) /\ InList(u, visited_urls) THEN 1 ELSE 0)

\* C14: a failed fetch leaves the session running; while the frontier is
\* non-empty and neither budget is exhausted the next step of the session
\* fetches the head of the frontier; and the session stops only when the
\* frontier is empty, the time limit is reached or the page limit is reached.
C14_FailureNotFatal ==
    [][/\ (IterationStep /\ ~Val(last').ok) => pc' = "loop"
       /\ (pc = "loop" /\ LoopCondition) =>
             \/ elapsed' # elapsed
             \/ IterationStep /\ Val(last').url = Head(urls)[2]
       /\ (pc = "loop" /\ pc' # "loop") =>
             /\ pc' = "done"
             /\ \/ urls = <<>>
                \/ ~TimeOk(time_limit, elapsed)
                \/ ~PageOk(page_limit, pages_scraped)]_vars

\* C14 witness: a fetch failed and the url fetched next was fetched
\* successfully, with the session still running.
C14_Witness ==
    /\ pc = "loop"
    /\ last # None
    /\ Val(last).ok
    /\ Len(visited_urls) >= 2
    /\ \E u \in URLS : fetch_log[u] = <<FALSE>> /\ u \notin QueuedUrls(urls)

\* The sentinel strings as the specification spells them.
SpecNoImageFound == <<"n", "o", " ", "i", "m", "a", "g", "e", " ", "f", "o", "u", "n", "d">>
SpecNoTitleFound == <<"n", "o", " ", "t", "i", "t", "l", "e", " ", "f", "o", "u", "n", "d">>
SpecNoPriceFound == <<"n", "o", " ", "p", "r", "i", "c", "e", " ", "f", "o", "u", "n", "d">>

\* The text between the first and the last character that is not whitespace.
Trimmed(t) ==
    LET inked == {i \in 1..Len(t) : t[i] \notin Whitespace}
    IN  IF inked = {} THEN <<>>
        ELSE SubSeq(t, CHOOSE i \in inked : \A j \in inked : i <= j,
                       CHOOSE i \in inked : \A j \in inked : i >= j)

\* A finished call of extract_product_data.
Extracted ==
    IF probe = None THEN FALSE
    ELSE Val(probe).fn = "extract_product_data" /\ Val(probe).out # None

\* The record a call must return, given the three sentinels.
ExpectedRecord(p, no_image, no_title, no_price) ==
    [url |-> p.url,
     image |-> IF p.soup.image = None THEN no_image ELSE Val(Val(p.soup.image)),
     name |-> IF p.soup.title = None THEN no_title ELSE Trimmed(Val(p.soup.title)),
     price |-> IF p.soup.price = None THEN no_price ELSE Trimmed(Val(p.soup.price))]

ListingForm(url) ==
    LET prefix == Https \o SiteHost \o ShopPath \o PagePath
        body == IF url # <<>> /\ url[Len(url)] = "/"
                THEN SubSeq(url, 1, Len(url) - 1) ELSE url
    IN  /\ Len(body) > Len(prefix)
        /\ SubSeq(body, 1, Len(prefix)) = prefix
        /\ \A k \in (Len(prefix) + 1)..Len(body) : body[k] \in Digits

\* A finished call of is_product_page.
Classified ==
    IF probe = None THEN FALSE
    ELSE Val(probe).fn = "is_product_page" /\ Val(probe).out # None

\* C16 (as claimed): the classifier returns true for every url of that form
\* and false for every other string.
C16_ClassifierExact ==
    Classified => (Val(Val(probe).out) <=> ListingForm(Val(probe).url))

\* The list L with its elements at k and k + 1 exchanged.
Swapped(L, k) ==
    [i \in 1..Len(L) |-> IF i = k THEN L[k + 1] ELSE IF i = k + 1 THEN L[k] ELSE L[i]]

\* Whatever links the page fetched next carries, the frontier after the
\* iteration is the same for every order of these links.
LinkOrderIrrelevant ==
    (pc = "loop" /\ LoopCondition) =>
        LET q == Tail(urls)
            visited == Append(visited_urls, Head(urls)[2])
        IN  \A L \in LinkLists : \A k \in 1..(Len(L) - 1) :
                scan_links(q, visited, L) = scan_links(q, visited, Swapped(L, k))

\* C17: among frontier entries of equal priority the one fetched is the
\* least in string order, and the frontier an iteration leaves does not
\* depend on the order of the links on the page, so the sequence of fetched
\* urls is determined by the site and the fetch outcomes.
C17_TieBreakLexical ==
    /\ []LinkOrderIrrelevant
    /\ [][IterationStep =>
            \A i \in 1..Len(urls) :
                \/ urls[i][2] = Val(last').url
                \/ urls[i][1] > urls[1][1]
                \/ urls[i][1] = urls[1][1] /\ StrLess(Val(last').url, urls[i][2])]_vars

\* C17 witness: of two product pages queued at 0.5, page/2/ was fetched
\* and page/3 is still queued.
C17_Witness ==
    /\ last # None
    /\ Val(last).url = UrlPage2
    /\ \E i \in 1..Len(urls) : urls[i] = <<HALF, UrlPage3>>

\* C18: urls.get() is only called on a non-empty frontier, so it never waits
\* on an empty queue; when the loop test finds the frontier empty the session
\* ends and the accumulated records are handed to save_to_dataframe.
C18_DequeueOnlyWhenNonEmpty ==
    /\ [](pc # "blocked")
    /\ [][/\ IterationStep => urls # <<>>
          /\ (pc = "loop" /\ urls = <<>> /\ elapsed' = elapsed) =>
                (pc' = "done" /\ saved' = Some(products))]_vars

\* C18 witness: the session ended on an empty frontier and handed over a
\* non-empty record list.
C18_Witness ==
    /\ Stopped
    /\ urls = <<>>
    /\ products # <<>>
    /\ saved = Some(products)

\* C19: the pages-scraped counter equals the length of the visited list and
\* no url is in the visited list twice.
C19_CounterIsVisitedCount ==
    /\ pages_scraped = Len(visited_urls)
    /\ \A i, j \in 1..Len(visited_urls) :
           i # j => visited_urls[i] # visited_urls[j]

\* C19 witness: three pages were scraped and a url failed once before it was
\* fetched successfully.
C19_Witness ==
    /\ pages_scraped = 3
    /\ \E i \in 1..Len(visited_urls) :
           fetch_log[visited_urls[i]] = <<FALSE, TRUE>>

\* C20: a session without time limit and page limit eventually stops, with
\* the frontier empty, whatever fetches succeed or fail.
C20_Terminates == <>(Stopped /\ urls = <<>>)

\* C20 witness: a session without limits stopped although a url failed every
\* time it was fetched, twice.
C20_Witness ==
    /\ Stopped
    /\ args = [time_limit |-> None, page_limit |-> None]
    /\ urls = <<>>
    /\ \E u \in URLS : fetch_log[u] = <<FALSE, FALSE>>

====
